---- MODULE Spec2Model ----
(***************************************************************************)
(* The class-file decoder of lyre.                                         *)
(*                                                                         *)
(* Two decoders live in the sources: the library decoder of src/class.rs   *)
(* (Version, AccessFlags, Constant, ConstantPool, Attribute, Field,        *)
(* Method, Class) and the decoder that src/main.rs, the crate root, still  *)
(* carries inline.  Spec is the first, SpecMain the second.                *)
(*                                                                         *)
(* Bytes are the numbers 0..255 and a buffer is a sequence of them.  A u16 *)
(* is a number; a u32 is the pair <<hi, lo>> of its 16-bit halves and a    *)
(* u64 the four 16-bit limbs, most significant first, so that every value  *)
(* stays inside the integers of the model checker.  A Rust String is the   *)
(* sequence of its UTF-8 bytes.                                            *)
(***************************************************************************)
EXTENDS Integers, Sequences, FiniteSets, TLC

VARIABLES
    data,             \* the input buffer handed to Class::from_bytes
    overflow_checks,  \* build profile: arithmetic overflow panics (dev) or wraps (release)
    eof_advances,     \* toolchain: a failed Cursor::read_exact leaves the cursor at the end (TRUE) or in place
    pc,               \* the statement of from_bytes that runs next
    pos,              \* the cursor position: bytes consumed so far
    result,           \* "running", "ok", "err" or "panic"
    err,              \* the Error returned when result = "err"
    version,          \* each decoded part is <<>> until its statement has run,
    constant_pool,    \* and <<value>> afterwards
    access_flags,
    this_class,
    super_class,
    interfaces,
    fields,
    methods,
    attributes,
    query             \* the last call made on the decoded Class and its answer

vars == <<data, overflow_checks, eof_advances, pc, pos, result, err, version,
          constant_pool, access_flags, this_class, super_class, interfaces,
          fields, methods, attributes, query>>

parts == <<version, constant_pool, access_flags, this_class, super_class,
           interfaces, fields, methods, attributes>>

-----------------------------------------------------------------------------
(* Bounds of the model. *)

\* longest constant pool drawn from CoreConstants
MaxPool == 2
\* longest method list drawn from MethodMenu
MaxMethods == 2
\* the tag sweep covers tags 0..MaxTag and 255
MaxTag == 21

-----------------------------------------------------------------------------
(* Results of a read: Ok(value, cursor), Err(error, cursor), Panic(cursor). *)

NoErr == <<"none">>

Ok(v, p) == [st |-> "ok", val |-> <<v>>, err |-> NoErr, pos |-> p]

Err(e, p) == [st |-> "err", val |-> <<>>, err |-> e, pos |-> p]

Panic(p) == [st |-> "panic", val |-> <<>>, err |-> NoErr, pos |-> p]

\* `?`: a result that is not Ok passes up as it is, an Ok goes on into K
Then(r, K(_)) == IF r.st # "ok" THEN r ELSE K(r)

-----------------------------------------------------------------------------
(* The byte cursor: std::io::Cursor over the buffer, read through byteorder. *)

UnexpectedEof == <<"Io", "UnexpectedEof">>

\* a read_exact that finds fewer bytes than asked for
ShortRead(d, p) == Err(UnexpectedEof, IF eof_advances THEN Len(d) ELSE p)

ReadExact(d, p, n) ==
    IF p + n <= Len(d) THEN Ok(SubSeq(d, p + 1, p + n), p + n) ELSE ShortRead(d, p)

ReadU8(d, p) == Then(ReadExact(d, p, 1), LAMBDA r : Ok(r.val[1][1], r.pos))

\* the big-endian value of two bytes
BE16(b) == 256 * b[1] + b[2]

ReadU16(d, p) == Then(ReadExact(d, p, 2), LAMBDA r : Ok(BE16(r.val[1]), r.pos))

ReadU32(d, p) ==
    Then(ReadExact(d, p, 4), LAMBDA r :
        Ok(<<BE16(SubSeq(r.val[1], 1, 2)), BE16(SubSeq(r.val[1], 3, 4))>>, r.pos))

ReadU64(d, p) ==
    Then(ReadExact(d, p, 8), LAMBDA r :
        Ok(<<BE16(SubSeq(r.val[1], 1, 2)), BE16(SubSeq(r.val[1], 3, 4)),
             BE16(SubSeq(r.val[1], 5, 6)), BE16(SubSeq(r.val[1], 7, 8))>>, r.pos))

\* two u16 read one after the other
ReadU16Pair(d, p) ==
    Then(ReadU16(d, p), LAMBDA a :
    Then(ReadU16(d, a.pos), LAMBDA b :
    Ok(<<a.val[1], b.val[1]>>, b.pos)))

-----------------------------------------------------------------------------
(* String::from_utf8: whether a byte sequence is well-formed UTF-8. *)

Cont(b) == b >= 128 /\ b <= 191

RECURSIVE ValidUtf8(_)
ValidUtf8(s) ==
    IF s = <<>> THEN TRUE
    ELSE LET b == s[1]
             n == Len(s)
         IN  IF b <= 127 THEN ValidUtf8(Tail(s))
             ELSE IF b >= 194 /\ b <= 223
             THEN n >= 2 /\ Cont(s[2]) /\ ValidUtf8(SubSeq(s, 3, n))
             ELSE IF b >= 224 /\ b <= 239
             THEN /\ n >= 3
                  /\ Cont(s[2]) /\ Cont(s[3])
                  /\ (b = 224 => s[2] >= 160)
                  /\ (b = 237 => s[2] <= 159)
                  /\ ValidUtf8(SubSeq(s, 4, n))
             ELSE IF b >= 240 /\ b <= 244
             THEN /\ n >= 4
                  /\ Cont(s[2]) /\ Cont(s[3]) /\ Cont(s[4])
                  /\ (b = 240 => s[2] >= 144)
                  /\ (b = 244 => s[2] <= 143)
                  /\ ValidUtf8(SubSeq(s, 5, n))
             ELSE FALSE

-----------------------------------------------------------------------------
(* src/class.rs *)

VersionAccepted(major, minor) == ~(major > 56 /\ minor # 0 /\ minor # 65535)

VersionRead(d, p) ==
    Then(ReadU16(d, p), LAMBDA minor :
    Then(ReadU16(d, minor.pos), LAMBDA major :
    IF VersionAccepted(major.val[1], minor.val[1])
    THEN Ok([major |-> major.val[1], minor |-> minor.val[1]], major.pos)
    ELSE Err(<<"InvalidVersion", major.val[1], minor.val[1]>>, major.pos)))

\* the bit positions of the twelve constants of AccessFlags
FlagBits == {0, 1, 2, 3, 4, 5, 6, 7, 8, 10, 11, 12}

Pow2(k) == 2 ^ k

BitSet(bits, k) == (bits \div Pow2(k)) % 2 = 1

\* AccessFlags::from_bits is Some exactly when no other bit is set
FromBits(bits) == \A k \in 0..15 : BitSet(bits, k) => k \in FlagBits

AccessFlagsRead(d, p) ==
    Then(ReadU16(d, p), LAMBDA bits :
    IF FromBits(bits.val[1]) THEN bits ELSE Err(<<"InvalidAccessFlags", bits.val[1]>>, bits.pos))

\* the arm of tag 1: length, payload, String::from_utf8(..).unwrap()
Utf8Read(d, p) ==
    Then(ReadU16(d, p), LAMBDA length :
    Then(ReadExact(d, length.pos, length.val[1]), LAMBDA bytes :
    IF ValidUtf8(bytes.val[1])
    THEN Ok([tag |-> "Utf8", data |-> bytes.val[1]], bytes.pos)
    ELSE Panic(bytes.pos)))

\* a plausible slip: the kind read before the index, as the struct declares them
MethodHandleKindFirst(d, p) ==
    Then(ReadU16Pair(d, p), LAMBDA r :
        Ok([tag |-> "MethodHandle", reference_index |-> r.val[1][2],
            reference_kind |-> r.val[1][1]], r.pos))

\* the arm of tag 15: the struct literal reads reference_index first
MethodHandleArm(d, p) ==
    Then(ReadU16Pair(d, p), LAMBDA r :
        Ok([tag |-> "MethodHandle", reference_index |-> r.val[1][1],
            reference_kind |-> r.val[1][2]], r.pos))

ConstantArm(d, p, tag) ==
    CASE tag = 1 -> Utf8Read(d, p)
      [] tag = 3 -> Then(ReadU32(d, p), LAMBDA r : Ok([tag |-> "Integer", v |-> r.val[1]], r.pos))
      [] tag = 4 -> Then(ReadU32(d, p), LAMBDA r : Ok([tag |-> "Float", v |-> r.val[1]], r.pos))
      [] tag = 5 -> Then(ReadU64(d, p), LAMBDA r : Ok([tag |-> "Long", v |-> r.val[1]], r.pos))
      [] tag = 6 -> Then(ReadU64(d, p), LAMBDA r : Ok([tag |-> "Double", v |-> r.val[1]], r.pos))
      [] tag = 7 -> Then(ReadU16(d, p), LAMBDA r :
            Ok([tag |-> "Class", name_index |-> r.val[1]], r.pos))
      [] tag = 8 -> Then(ReadU16(d, p), LAMBDA r :
            Ok([tag |-> "String", string_index |-> r.val[1]], r.pos))
      [] tag = 9 -> Then(ReadU16Pair(d, p), LAMBDA r :
            Ok([tag |-> "FieldRef", class_index |-> r.val[1][1],
                name_and_type_index |-> r.val[1][2]], r.pos))
      [] tag = 10 -> Then(ReadU16Pair(d, p), LAMBDA r :
            Ok([tag |-> "MethodRef", class_index |-> r.val[1][1],
                name_and_type_index |-> r.val[1][2]], r.pos))
      [] tag = 11 -> Then(ReadU16Pair(d, p), LAMBDA r :
            Ok([tag |-> "InterfaceMethodRef", class_index |-> r.val[1][1],
                name_and_type_index |-> r.val[1][2]], r.pos))
      [] tag = 12 -> Then(ReadU16Pair(d, p), LAMBDA r :
            Ok([tag |-> "NameAndType", name_index |-> r.val[1][1],
                descriptor_index |-> r.val[1][2]], r.pos))
      [] tag = 15 -> MethodHandleArm(d, p)
      [] tag = 16 -> Then(ReadU16(d, p), LAMBDA r :
            Ok([tag |-> "MethodType", descriptor_index |-> r.val[1]], r.pos))
      [] tag = 17 -> Then(ReadU16Pair(d, p), LAMBDA r :
            Ok([tag |-> "Dynamic", bootstrap_method_attr_index |-> r.val[1][1],
                name_and_type_index |-> r.val[1][2]], r.pos))
      [] tag = 18 -> Then(ReadU16Pair(d, p), LAMBDA r :
            Ok([tag |-> "InvokeDynamic", bootstrap_method_attr_index |-> r.val[1][1],
                name_and_type_index |-> r.val[1][2]], r.pos))
      [] tag = 19 -> Then(ReadU16(d, p), LAMBDA r :
            Ok([tag |-> "Module", name_index |-> r.val[1]], r.pos))
      [] tag = 20 -> Then(ReadU16(d, p), LAMBDA r :
            Ok([tag |-> "Package", name_index |-> r.val[1]], r.pos))
      [] OTHER -> Err(<<"InvalidConstantTag", tag>>, p)

ConstantRead(d, p) == Then(ReadU8(d, p), LAMBDA tag : ConstantArm(d, tag.pos, tag.val[1]))

RECURSIVE ConstantLoop(_, _, _, _)
\* the for loop of ConstantPool::read: n iterations left, pool gathered so far
ConstantLoop(d, p, n, pool) ==
    IF n = 0 THEN Ok(pool, p)
    ELSE Then(ConstantRead(d, p), LAMBDA constant :
            ConstantLoop(d, constant.pos, n - 1, Append(pool, constant.val[1])))

\* a plausible slip: the loop runs constant_pool_count times
ConstantPoolReadCountTimes(d, p) ==
    Then(ReadU16(d, p), LAMBDA constant_pool_count :
    ConstantLoop(d, constant_pool_count.pos, constant_pool_count.val[1], <<>>))

\* constant_pool_count-1 on u16: a panic where overflow is checked, 65535 otherwise
ConstantPoolRead(d, p) ==
    Then(ReadU16(d, p), LAMBDA constant_pool_count :
    IF constant_pool_count.val[1] = 0 /\ overflow_checks
    THEN Panic(constant_pool_count.pos)
    ELSE ConstantLoop(d, constant_pool_count.pos,
                      (constant_pool_count.val[1] + 65535) % 65536, <<>>))

\* usize::MAX, which `0 - 1` wraps to; held at the largest integer of the model
\* checker: every value of at least 65535 lies past the end of every pool
UsizeMax == 2147483647

\* the result of a call that reads nothing, placed at cursor p
At(s, p) == [st |-> s.st, val |-> s.val, err |-> s.err, pos |-> p]

\* self.pool.get(index): index as usize - 1 has been taken already
PoolGet(pool, i) ==
    IF i >= Len(pool) THEN Err(<<"InvalidConstantPoolIndex">>, 0)
    ELSE IF pool[i + 1].tag = "Utf8" THEN Ok(pool[i + 1].data, 0)
    ELSE Err(<<"InvalidConstantPoolType">>, 0)

\* ConstantPool::string; the cursor field of its result means nothing
PoolString(pool, index) ==
    IF index = 0 /\ overflow_checks THEN Panic(0)
    ELSE PoolGet(pool, IF index = 0 THEN UsizeMax ELSE index - 1)

\* cp.string(r.read_u16::<BigEndian>()?)?
ResolvedRead(d, p, cp) ==
    Then(ReadU16(d, p), LAMBDA index : At(PoolString(cp, index.val[1]), index.pos))

\* whether a u32 <<hi, lo>> is at most n
U32AtMost(len, n) ==
    IF len[1] > n \div 65536 THEN FALSE ELSE len[1] * 65536 + len[2] <= n

\* vec![0; info_length] and read_exact into it
InfoRead(d, p, info_length) ==
    IF U32AtMost(info_length, Len(d) - p) THEN ReadExact(d, p, info_length[2])
    ELSE ShortRead(d, p)

AttributeRead(d, p, cp) ==
    Then(ResolvedRead(d, p, cp), LAMBDA name :
    Then(ReadU32(d, name.pos), LAMBDA info_length :
    Then(InfoRead(d, info_length.pos, info_length.val[1]), LAMBDA info :
    Ok([name |-> name.val[1], info |-> info.val[1]], info.pos))))

\* read_vec is modelled once for each closure it is called with: the loop over
\* the elements, then the count read before it

RECURSIVE U16Loop(_, _, _, _)
U16Loop(d, p, n, elements) ==
    IF n = 0 THEN Ok(elements, p)
    ELSE Then(ReadU16(d, p), LAMBDA e : U16Loop(d, e.pos, n - 1, Append(elements, e.val[1])))

\* read_vec(&mut cursor, |r| Ok(r.read_u16::<BigEndian>()?))
ReadVecU16(d, p) ==
    Then(ReadU16(d, p), LAMBDA count : U16Loop(d, count.pos, count.val[1], <<>>))

RECURSIVE AttributeLoop(_, _, _, _, _)
AttributeLoop(d, p, n, elements, cp) ==
    IF n = 0 THEN Ok(elements, p)
    ELSE Then(AttributeRead(d, p, cp), LAMBDA e :
            AttributeLoop(d, e.pos, n - 1, Append(elements, e.val[1]), cp))

\* read_vec(r, |r| Attribute::read(r, cp))
ReadVecAttribute(d, p, cp) ==
    Then(ReadU16(d, p), LAMBDA count : AttributeLoop(d, count.pos, count.val[1], <<>>, cp))

\* a plausible slip: the flags are validated after the names are resolved
FieldReadFlagsLast(d, p, cp) ==
    Then(ReadU16(d, p), LAMBDA bits :
    Then(ResolvedRead(d, bits.pos, cp), LAMBDA name :
    Then(ResolvedRead(d, name.pos, cp), LAMBDA descriptor :
    Then(ReadVecAttribute(d, descriptor.pos, cp), LAMBDA attrs :
    IF FromBits(bits.val[1])
    THEN Ok([access_flags |-> bits.val[1], name |-> name.val[1],
             descriptor |-> descriptor.val[1], attributes |-> attrs.val[1]], attrs.pos)
    ELSE Err(<<"InvalidAccessFlags", bits.val[1]>>, attrs.pos)))))

FieldRead(d, p, cp) ==
    Then(AccessFlagsRead(d, p), LAMBDA flags :
    Then(ResolvedRead(d, flags.pos, cp), LAMBDA name :
    Then(ResolvedRead(d, name.pos, cp), LAMBDA descriptor :
    Then(ReadVecAttribute(d, descriptor.pos, cp), LAMBDA attrs :
    Ok([access_flags |-> flags.val[1], name |-> name.val[1],
        descriptor |-> descriptor.val[1], attributes |-> attrs.val[1]], attrs.pos)))))

MethodRead(d, p, cp) ==
    Then(AccessFlagsRead(d, p), LAMBDA flags :
    Then(ResolvedRead(d, flags.pos, cp), LAMBDA name :
    Then(ResolvedRead(d, name.pos, cp), LAMBDA descriptor :
    Then(ReadVecAttribute(d, descriptor.pos, cp), LAMBDA attrs :
    Ok([access_flags |-> flags.val[1], name |-> name.val[1],
        descriptor |-> descriptor.val[1], attributes |-> attrs.val[1]], attrs.pos)))))

RECURSIVE FieldLoop(_, _, _, _, _)
FieldLoop(d, p, n, elements, cp) ==
    IF n = 0 THEN Ok(elements, p)
    ELSE Then(FieldRead(d, p, cp), LAMBDA e :
            FieldLoop(d, e.pos, n - 1, Append(elements, e.val[1]), cp))

\* read_vec(&mut cursor, |r| Field::read(r, &constant_pool))
ReadVecField(d, p, cp) ==
    Then(ReadU16(d, p), LAMBDA count : FieldLoop(d, count.pos, count.val[1], <<>>, cp))

RECURSIVE MethodLoop(_, _, _, _, _)
MethodLoop(d, p, n, elements, cp) ==
    IF n = 0 THEN Ok(elements, p)
    ELSE Then(MethodRead(d, p, cp), LAMBDA e :
            MethodLoop(d, e.pos, n - 1, Append(elements, e.val[1]), cp))

\* read_vec(&mut cursor, |r| Method::read(r, &constant_pool))
ReadVecMethod(d, p, cp) ==
    Then(ReadU16(d, p), LAMBDA count : MethodLoop(d, count.pos, count.val[1], <<>>, cp))

\* a plausible slip: the last method of that name
RECURSIVE FindLast(_, _)
FindLast(ms, name) ==
    IF ms = <<>> THEN <<>>
    ELSE IF ms[Len(ms)].name = name THEN <<ms[Len(ms)]>>
    ELSE FindLast(SubSeq(ms, 1, Len(ms) - 1), name)

\* Iterator::find: the first element the predicate of Class::method accepts
RECURSIVE Find(_, _)
Find(ms, name) ==
    IF ms = <<>> THEN <<>>
    ELSE IF ms[1].name = name THEN <<ms[1]>>
    ELSE Find(Tail(ms), name)

\* Class::method
ClassMethod(name) == Find(methods[1], name)

-----------------------------------------------------------------------------
(* Class::from_bytes of src/class.rs, one action for each statement. *)

Magic == <<51966, 47806>>    \* 0xCAFEBABE

\* what a statement leaves behind: on Ok its value is bound to its name, the
\* cursor has moved on and the next statement runs; otherwise the function
\* returns (or unwinds) with r
Step(r, part, next) ==
    /\ pos' = r.pos
    /\ result' = IF r.st = "ok" THEN "running" ELSE r.st
    /\ err' = r.err
    /\ pc' = IF r.st = "ok" THEN next ELSE pc
    /\ version' = IF part = "version" THEN r.val ELSE version
    /\ constant_pool' = IF part = "constant_pool" THEN r.val ELSE constant_pool
    /\ access_flags' = IF part = "access_flags" THEN r.val ELSE access_flags
    /\ this_class' = IF part = "this_class" THEN r.val ELSE this_class
    /\ super_class' = IF part = "super_class" THEN r.val ELSE super_class
    /\ interfaces' = IF part = "interfaces" THEN r.val ELSE interfaces
    /\ fields' = IF part = "fields" THEN r.val ELSE fields
    /\ methods' = IF part = "methods" THEN r.val ELSE methods
    /\ attributes' = IF part = "attributes" THEN r.val ELSE attributes
    /\ UNCHANGED <<data, overflow_checks, eof_advances, query>>

\* a plausible slip: only the upper half of the signature is compared
SignatureCheckUpperHalf(magic) ==
    IF magic.st # "ok" THEN magic
    ELSE IF magic.val[1][1] # Magic[1]
    THEN Err(<<"InvalidSignature", magic.val[1]>>, magic.pos)
    ELSE magic

\* if magic != 0xCAFEBABE { return Err(Error::InvalidSignature(magic)); }
SignatureCheck(magic) ==
    IF magic.st # "ok" THEN magic
    ELSE IF magic.val[1] # Magic THEN Err(<<"InvalidSignature", magic.val[1]>>, magic.pos)
    ELSE magic

ReadMagic ==
    /\ pc = "magic" /\ result = "running"
    /\ Step(SignatureCheck(ReadU32(data, pos)), "magic", "version")

ReadVersion ==
    /\ pc = "version" /\ result = "running"
    /\ Step(VersionRead(data, pos), "version", "constant_pool")

ReadConstantPool ==
    /\ pc = "constant_pool" /\ result = "running"
    /\ Step(ConstantPoolRead(data, pos), "constant_pool", "access_flags")

ReadAccessFlags ==
    /\ pc = "access_flags" /\ result = "running"
    /\ Step(AccessFlagsRead(data, pos), "access_flags", "this_class")

ReadThisClass ==
    /\ pc = "this_class" /\ result = "running"
    /\ Step(ReadU16(data, pos), "this_class", "super_class")

ReadSuperClass ==
    /\ pc = "super_class" /\ result = "running"
    /\ Step(ReadU16(data, pos), "super_class", "interfaces")

ReadInterfaces ==
    /\ pc = "interfaces" /\ result = "running"
    /\ Step(ReadVecU16(data, pos), "interfaces", "fields")

ReadFields ==
    /\ pc = "fields" /\ result = "running"
    /\ Step(ReadVecField(data, pos, constant_pool[1]), "fields", "methods")

ReadMethods ==
    /\ pc = "methods" /\ result = "running"
    /\ Step(ReadVecMethod(data, pos, constant_pool[1]), "methods", "attributes")

ReadAttributes ==
    /\ pc = "attributes" /\ result = "running"
    /\ Step(ReadVecAttribute(data, pos, constant_pool[1]), "attributes", "return")

\* Ok(Self { .. })
Return ==
    /\ pc = "return" /\ result = "running"
    /\ result' = "ok"
    /\ pc' = "done"
    /\ UNCHANGED <<data, overflow_checks, eof_advances, pos, err, query>>
    /\ UNCHANGED parts

-----------------------------------------------------------------------------
(* Calls on a decoded Class. *)

main == <<109, 97, 105, 110>>    \* "main"
descV == <<40, 41, 86>>          \* "()V"
Code == <<67, 111, 100, 101>>    \* "Code"

\* the names asked of Class::method
QueryNames == {main, descV, Code}

\* the indices asked of ConstantPool::string
QueryIndices == 0..(MaxPool + 3) \cup {65535}

NoQuery == [op |-> "none"]

CallMethod ==
    /\ result = "ok"
    /\ \E name \in QueryNames :
          query' = [op |-> "method", name |-> name, ans |-> ClassMethod(name)]
    /\ UNCHANGED <<data, overflow_checks, eof_advances, pc, pos, result, err>>
    /\ UNCHANGED parts

CallString ==
    /\ result = "ok"
    /\ \E index \in QueryIndices :
          query' = [op |-> "string", index |-> index,
                    ans |-> PoolString(constant_pool[1], index)]
    /\ UNCHANGED <<data, overflow_checks, eof_advances, pc, pos, result, err>>
    /\ UNCHANGED parts

-----------------------------------------------------------------------------
(* The input buffers: class files written out field by field. *)

U16(n) == <<n \div 256, n % 256>>

RECURSIVE U16s(_)
U16s(ns) == IF ns = <<>> THEN <<>> ELSE U16(ns[1]) \o U16s(Tail(ns))

\* a constant of the pool as the format lays it out: tag, then payload
EncConstant(c) ==
    CASE c.tag = "Utf8" -> <<1>> \o U16(Len(c.data)) \o c.data
      [] c.tag = "Integer" -> <<3>> \o U16s(c.v)
      [] c.tag = "Float" -> <<4>> \o U16s(c.v)
      [] c.tag = "Long" -> <<5>> \o U16s(c.v)
      [] c.tag = "Double" -> <<6>> \o U16s(c.v)
      [] c.tag = "Class" -> <<7>> \o U16(c.name_index)
      [] c.tag = "String" -> <<8>> \o U16(c.string_index)
      [] c.tag = "FieldRef" -> <<9>> \o U16(c.class_index) \o U16(c.name_and_type_index)
      [] c.tag = "MethodRef" -> <<10>> \o U16(c.class_index) \o U16(c.name_and_type_index)
      [] c.tag = "InterfaceMethodRef" ->
            <<11>> \o U16(c.class_index) \o U16(c.name_and_type_index)
      [] c.tag = "NameAndType" -> <<12>> \o U16(c.name_index) \o U16(c.descriptor_index)
      [] c.tag = "MethodHandle" ->
            <<15>> \o U16(c.reference_index) \o U16(c.reference_kind)
      [] c.tag = "MethodType" -> <<16>> \o U16(c.descriptor_index)
      [] c.tag = "Dynamic" ->
            <<17>> \o U16(c.bootstrap_method_attr_index) \o U16(c.name_and_type_index)
      [] c.tag = "InvokeDynamic" ->
            <<18>> \o U16(c.bootstrap_method_attr_index) \o U16(c.name_and_type_index)
      [] c.tag = "Module" -> <<19>> \o U16(c.name_index)
      [] c.tag = "Package" -> <<20>> \o U16(c.name_index)

RECURSIVE EncConstants(_)
EncConstants(cs) == IF cs = <<>> THEN <<>> ELSE EncConstant(cs[1]) \o EncConstants(Tail(cs))

\* an attribute record: name index, declared u32 length, and the payload present
EncAttribute(a) == U16(a.name_index) \o U16s(a.length) \o a.payload

RECURSIVE EncAttributes(_)
EncAttributes(as) ==
    IF as = <<>> THEN <<>> ELSE EncAttribute(as[1]) \o EncAttributes(Tail(as))

\* a field or method record
EncMember(m) ==
    U16(m.access_flags) \o U16(m.name_index) \o U16(m.descriptor_index)
        \o U16(Len(m.attributes)) \o EncAttributes(m.attributes)

RECURSIVE EncMembers(_)
EncMembers(ms) == IF ms = <<>> THEN <<>> ELSE EncMember(ms[1]) \o EncMembers(Tail(ms))

\* everything after the constant pool
EncBody(b) ==
    U16(b.access_flags) \o U16(b.this_class) \o U16(b.super_class)
        \o U16(Len(b.interfaces)) \o U16s(b.interfaces)
        \o U16(Len(b.fields)) \o EncMembers(b.fields)
        \o U16(Len(b.methods)) \o EncMembers(b.methods)
        \o U16(Len(b.attributes)) \o EncAttributes(b.attributes)

EncHeader(magic, minor, major) == U16s(magic) \o U16(minor) \o U16(major)

\* all sequences over S of length at most n
SeqsUpTo(S, n) == UNION {[1..k -> S] : k \in 0..n}

Utf8(s) == [tag |-> "Utf8", data |-> s]

Int7 == [tag |-> "Integer", v |-> <<0, 7>>]

\* the constants the pools of PoolFiles are drawn from; the last is not UTF-8
CoreConstants ==
    {Utf8(main), Utf8(descV), Int7, [tag |-> "Long", v |-> <<1, 2, 3, 4>>], Utf8(<<195, 40>>)}

\* one constant of each tag
SampleConstant(tag) ==
    CASE tag = 1 -> Utf8(<<104, 105>>)
      [] tag = 3 -> [tag |-> "Integer", v |-> <<4660, 22136>>]
      [] tag = 4 -> [tag |-> "Float", v |-> <<16256, 0>>]
      [] tag = 5 -> [tag |-> "Long", v |-> <<65535, 0, 1, 2>>]
      [] tag = 6 -> [tag |-> "Double", v |-> <<16368, 0, 0, 0>>]
      [] tag = 7 -> [tag |-> "Class", name_index |-> 1]
      [] tag = 8 -> [tag |-> "String", string_index |-> 1]
      [] tag = 9 -> [tag |-> "FieldRef", class_index |-> 2, name_and_type_index |-> 3]
      [] tag = 10 -> [tag |-> "MethodRef", class_index |-> 2, name_and_type_index |-> 3]
      [] tag = 11 ->
            [tag |-> "InterfaceMethodRef", class_index |-> 2, name_and_type_index |-> 3]
      [] tag = 12 -> [tag |-> "NameAndType", name_index |-> 2, descriptor_index |-> 3]
      [] tag = 15 -> [tag |-> "MethodHandle", reference_index |-> 258, reference_kind |-> 6]
      [] tag = 16 -> [tag |-> "MethodType", descriptor_index |-> 1]
      [] tag = 17 ->
            [tag |-> "Dynamic", bootstrap_method_attr_index |-> 0, name_and_type_index |-> 3]
      [] tag = 18 ->
            [tag |-> "InvokeDynamic", bootstrap_method_attr_index |-> 4,
             name_and_type_index |-> 3]
      [] tag = 19 -> [tag |-> "Module", name_index |-> 1]
      [] tag = 20 -> [tag |-> "Package", name_index |-> 1]

KnownTags == {1, 3, 4, 5, 6, 7, 8, 9, 10, 11, 12, 15, 16, 17, 18, 19, 20}

GoodHeader == EncHeader(Magic, 0, 52)

\* public synchronized, no interfaces, fields, methods or attributes
MinimalBody ==
    [access_flags |-> 33, this_class |-> 0, super_class |-> 0, interfaces |-> <<>>,
     fields |-> <<>>, methods |-> <<>>, attributes |-> <<>>]

\* the pool of the member files: "main", "()V", "Code", and an Integer
MemberPool == <<Utf8(main), Utf8(descV), Utf8(Code), Int7>>

Attr(name_index, length, payload) ==
    [name_index |-> name_index, length |-> <<0, length>>, payload |-> payload]

Member(flags, name_index, descriptor_index, as) ==
    [access_flags |-> flags, name_index |-> name_index,
     descriptor_index |-> descriptor_index, attributes |-> as]

MethodMenu ==
    {Member(9, 1, 2, <<>>),                       \* public static main ()V
     Member(1, 1, 3, <<>>),                       \* a second main, other descriptor
     Member(1, 2, 2, <<Attr(3, 2, <<1, 2>>)>>),   \* a method named "()V" with a Code attribute
     Member(8192, 1, 2, <<>>),                    \* an undefined flag bit
     Member(1, 0, 2, <<>>),                       \* name index 0
     Member(1, 1, 4, <<>>)}                       \* descriptor index at the Integer

FieldLists ==
    {<<>>,
     <<Member(2, 2, 2, <<Attr(3, 1, <<9>>)>>)>>,
     <<Member(2, 4, 9, <<>>)>>,                   \* name at the Integer, descriptor out of range
     <<Member(16384, 0, 2, <<>>)>>}               \* undefined flag bit and name index 0

AttributeLists ==
    {<<>>,
     <<Attr(3, 3, <<1, 2, 3>>)>>,
     <<Attr(3, 5, <<1, 2>>)>>                     \* declares 5 bytes, 2 are there
    }

File(header, count, pool, body) == header \o U16(count) \o EncConstants(pool) \o EncBody(body)

\* headers and class flags, good and bad, before two different bodies
HeaderFiles ==
    {EncHeader(mg, v[1], v[2]) \o U16(1) \o U16(flags) \o tail :
        mg \in {Magic, <<51966, 47807>>},
        v \in {<<0, 52>>, <<3, 45>>, <<1, 57>>, <<0, 57>>, <<65535, 57>>, <<7, 56>>},
        flags \in {33, 8192, 512},
        tail \in {<<0, 0, 0, 0, 0, 0, 0, 0, 0, 0, 0, 0>>, <<0, 3, 0, 4, 0, 1, 0, 5, 0, 0, 0, 0, 0, 0>>}}

\* every pool over CoreConstants, with the count the format asks for, with
\* count 0, and with a count of one constant more than is there
PoolFiles ==
    {File(GoodHeader, count, pool, MinimalBody) :
        count \in {0, 1, 2, 3, 4}, pool \in SeqsUpTo(CoreConstants, MaxPool)}

\* a pool of one constant for every tag: a sample where the tag is known,
\* the bare tag byte otherwise
TagFiles ==
    {GoodHeader \o U16(2)
         \o (IF tag \in KnownTags THEN EncConstant(SampleConstant(tag)) ELSE <<tag>>)
         \o EncBody(MinimalBody) :
        tag \in 0..MaxTag \cup {255}}

MemberFiles ==
    {File(GoodHeader, Len(MemberPool) + 1, MemberPool,
          [access_flags |-> 33, this_class |-> 5, super_class |-> 6, interfaces |-> is,
           fields |-> fs, methods |-> ms, attributes |-> as]) :
        is \in {<<>>, <<7, 8>>},
        fs \in FieldLists,
        ms \in SeqsUpTo(MethodMenu, MaxMethods),
        as \in AttributeLists}

\* a file with one of everything
FullFile ==
    File(GoodHeader, 5, MemberPool,
         [access_flags |-> 33, this_class |-> 5, super_class |-> 6, interfaces |-> <<7>>,
          fields |-> <<Member(2, 2, 2, <<Attr(3, 1, <<9>>)>>)>>,
          methods |-> <<Member(9, 1, 2, <<Attr(3, 2, <<1, 2>>)>>)>>,
          attributes |-> <<Attr(3, 3, <<1, 2, 3>>)>>])

\* the files whose every prefix is an input
TruncationBases ==
    {FullFile, File(GoodHeader, 1, <<>>, MinimalBody), File(GoodHeader, 0, <<Int7>>, MinimalBody)}

TruncatedFiles == UNION {{SubSeq(d, 1, n) : n \in 0..Len(d)} : d \in TruncationBases}

\* the example of the specification: pool "main", "()V", "Code" and one method
ExampleFile ==
    File(GoodHeader, 4, <<Utf8(main), Utf8(descV), Utf8(Code)>>,
         [access_flags |-> 33, this_class |-> 0, super_class |-> 0, interfaces |-> <<>>,
          fields |-> <<>>, methods |-> <<Member(1, 1, 2, <<>>)>>, attributes |-> <<>>])

\* an attribute that declares 65536 bytes and carries one
HugeAttributeFile ==
    File(GoodHeader, 5, MemberPool,
         [access_flags |-> 33, this_class |-> 5, super_class |-> 6, interfaces |-> <<>>,
          fields |-> <<>>, methods |-> <<>>,
          attributes |-> <<[name_index |-> 1, length |-> <<1, 0>>, payload |-> <<7>>]>>])

MainInputs ==
    HeaderFiles \cup PoolFiles \cup TagFiles \cup MemberFiles \cup TruncatedFiles
        \cup {ExampleFile}

\* pools of a Class constant and the name after it: the Class naming itself,
\* the entry after it, and an entry the pool does not have
ReferenceFiles ==
    {File(GoodHeader, 3, <<[tag |-> "Class", name_index |-> i], Utf8(main)>>, MinimalBody) :
        i \in {1, 2, 3}}

Inputs == MainInputs \cup {HugeAttributeFile} \cup ReferenceFiles

-----------------------------------------------------------------------------

Init ==
    /\ data \in Inputs
    /\ overflow_checks \in BOOLEAN
    /\ eof_advances \in BOOLEAN
    /\ pc = "magic"
    /\ pos = 0
    /\ result = "running"
    /\ err = NoErr
    /\ version = <<>>
    /\ constant_pool = <<>>
    /\ access_flags = <<>>
    /\ this_class = <<>>
    /\ super_class = <<>>
    /\ interfaces = <<>>
    /\ fields = <<>>
    /\ methods = <<>>
    /\ attributes = <<>>
    /\ query = NoQuery

Next ==
    \/ ReadMagic
    \/ ReadVersion
    \/ ReadConstantPool
    \/ ReadAccessFlags
    \/ ReadThisClass
    \/ ReadSuperClass
    \/ ReadInterfaces
    \/ ReadFields
    \/ ReadMethods
    \/ ReadAttributes
    \/ Return
    \/ CallMethod
    \/ CallString

Spec == Init /\ [][Next]_vars

-----------------------------------------------------------------------------
(* src/main.rs: the decoder the crate root carries inline. *)

MainVersionRejected(major, minor) == major > 56 /\ (minor # 0 \/ minor # 65535)

MainVersionRead(d, p) ==
    Then(ReadU16(d, p), LAMBDA minor :
    Then(ReadU16(d, minor.pos), LAMBDA major :
    IF MainVersionRejected(major.val[1], minor.val[1])
    THEN Err(<<"InvalidVersion", major.val[1], minor.val[1]>>, major.pos)
    ELSE Ok([major |-> major.val[1], minor |-> minor.val[1]], major.pos)))

\* Constant::read and ConstantPool::read of main.rs are those of class.rs
MainConstantPoolRead(d, p) == ConstantPoolRead(d, p)

\* vec![0; info_length]
Zeros(info_length) == [i \in 1..(info_length[1] * 65536 + info_length[2]) |-> 0]

\* vec![0; info_length] and read_exact into it, the Result of read_exact dropped
MainInfoRead(d, p, info_length) ==
    IF U32AtMost(info_length, Len(d) - p) THEN ReadExact(d, p, info_length[2])
    ELSE Ok(Zeros(info_length), ShortRead(d, p).pos)

MainAttributeRead(d, p) ==
    Then(ReadU16(d, p), LAMBDA attribute_name_index :
    Then(ReadU32(d, attribute_name_index.pos), LAMBDA info_length :
    Then(MainInfoRead(d, info_length.pos, info_length.val[1]), LAMBDA info :
    Ok([attribute_name_index |-> attribute_name_index.val[1], info |-> info.val[1]],
       info.pos))))

\* each counted for loop of main.rs: the loop, then the count read before it

RECURSIVE MainInterfaceLoop(_, _, _, _)
MainInterfaceLoop(d, p, n, elements) ==
    IF n = 0 THEN Ok(elements, p)
    ELSE Then(ReadU16(d, p), LAMBDA e :
            MainInterfaceLoop(d, e.pos, n - 1, Append(elements, e.val[1])))

MainInterfaces(d, p) ==
    Then(ReadU16(d, p), LAMBDA count : MainInterfaceLoop(d, count.pos, count.val[1], <<>>))

RECURSIVE MainAttributeLoop(_, _, _, _)
MainAttributeLoop(d, p, n, elements) ==
    IF n = 0 THEN Ok(elements, p)
    ELSE Then(MainAttributeRead(d, p), LAMBDA e :
            MainAttributeLoop(d, e.pos, n - 1, Append(elements, e.val[1])))

MainAttributes(d, p) ==
    Then(ReadU16(d, p), LAMBDA count : MainAttributeLoop(d, count.pos, count.val[1], <<>>))

MainFieldRead(d, p) ==
    Then(ReadU16(d, p), LAMBDA flags :
    Then(ReadU16(d, flags.pos), LAMBDA name_index :
    Then(ReadU16(d, name_index.pos), LAMBDA descriptor_index :
    Then(MainAttributes(d, descriptor_index.pos), LAMBDA attrs :
    Ok([access_flags |-> flags.val[1], name_index |-> name_index.val[1],
        descriptor_index |-> descriptor_index.val[1], attributes |-> attrs.val[1]],
       attrs.pos)))))

MainMethodRead(d, p) ==
    Then(ReadU16(d, p), LAMBDA flags :
    Then(ReadU16(d, flags.pos), LAMBDA name_index :
    Then(ReadU16(d, name_index.pos), LAMBDA descriptor_index :
    Then(MainAttributes(d, descriptor_index.pos), LAMBDA attrs :
    Ok([access_flags |-> flags.val[1], name_index |-> name_index.val[1],
        descriptor_index |-> descriptor_index.val[1], attributes |-> attrs.val[1]],
       attrs.pos)))))

RECURSIVE MainFieldLoop(_, _, _, _)
MainFieldLoop(d, p, n, elements) ==
    IF n = 0 THEN Ok(elements, p)
    ELSE Then(MainFieldRead(d, p), LAMBDA e :
            MainFieldLoop(d, e.pos, n - 1, Append(elements, e.val[1])))

MainFields(d, p) ==
    Then(ReadU16(d, p), LAMBDA count : MainFieldLoop(d, count.pos, count.val[1], <<>>))

RECURSIVE MainMethodLoop(_, _, _, _)
MainMethodLoop(d, p, n, elements) ==
    IF n = 0 THEN Ok(elements, p)
    ELSE Then(MainMethodRead(d, p), LAMBDA e :
            MainMethodLoop(d, e.pos, n - 1, Append(elements, e.val[1])))

MainMethods(d, p) ==
    Then(ReadU16(d, p), LAMBDA count : MainMethodLoop(d, count.pos, count.val[1], <<>>))

MainReadMagic ==
    /\ pc = "magic" /\ result = "running"
    /\ Step(SignatureCheck(ReadU32(data, pos)), "magic", "version")

MainReadVersion ==
    /\ pc = "version" /\ result = "running"
    /\ Step(MainVersionRead(data, pos), "version", "constant_pool")

MainReadConstantPool ==
    /\ pc = "constant_pool" /\ result = "running"
    /\ Step(MainConstantPoolRead(data, pos), "constant_pool", "access_flags")

MainReadAccessFlags ==
    /\ pc = "access_flags" /\ result = "running"
    /\ Step(ReadU16(data, pos), "access_flags", "this_class")

MainReadThisClass ==
    /\ pc = "this_class" /\ result = "running"
    /\ Step(ReadU16(data, pos), "this_class", "super_class")

MainReadSuperClass ==
    /\ pc = "super_class" /\ result = "running"
    /\ Step(ReadU16(data, pos), "super_class", "interfaces")

MainReadInterfaces ==
    /\ pc = "interfaces" /\ result = "running"
    /\ Step(MainInterfaces(data, pos), "interfaces", "fields")

MainReadFields ==
    /\ pc = "fields" /\ result = "running"
    /\ Step(MainFields(data, pos), "fields", "methods")

MainReadMethods ==
    /\ pc = "methods" /\ result = "running"
    /\ Step(MainMethods(data, pos), "methods", "attributes")

MainReadAttributes ==
    /\ pc = "attributes" /\ result = "running"
    /\ Step(MainAttributes(data, pos), "attributes", "return")

MainReturn ==
    /\ pc = "return" /\ result = "running"
    /\ result' = "ok"
    /\ pc' = "done"
    /\ UNCHANGED <<data, overflow_checks, eof_advances, pos, err, query>>
    /\ UNCHANGED parts

InitMain ==
    /\ data \in MainInputs
    /\ overflow_checks \in BOOLEAN
    /\ eof_advances \in BOOLEAN
    /\ pc = "magic"
    /\ pos = 0
    /\ result = "running"
    /\ err = NoErr
    /\ version = <<>>
    /\ constant_pool = <<>>
    /\ access_flags = <<>>
    /\ this_class = <<>>
    /\ super_class = <<>>
    /\ interfaces = <<>>
    /\ fields = <<>>
    /\ methods = <<>>
    /\ attributes = <<>>
    /\ query = NoQuery

NextMain ==
    \/ MainReadMagic
    \/ MainReadVersion
    \/ MainReadConstantPool
    \/ MainReadAccessFlags
    \/ MainReadThisClass
    \/ MainReadSuperClass
    \/ MainReadInterfaces
    \/ MainReadFields
    \/ MainReadMethods
    \/ MainReadAttributes
    \/ MainReturn

SpecMain == InitMain /\ [][NextMain]_vars

-----------------------------------------------------------------------------
(* Properties. *)

\* the big-endian u16 at offset p of the buffer
W16(p) == 256 * data[p + 1] + data[p + 2]

\* from_bytes has left its first statement behind
MagicDone == pc # "magic" \/ result # "running"

\* C1: from_bytes ends with a Class or with an Error value and never panics
C1_ClassOrError == result \in {"running", "ok", "err"}

\* C3: string(index) is the text of pool[index-1] when that entry is Utf8,
\* InvalidConstantPoolType when it is another constant, and
\* InvalidConstantPoolIndex when index-1 is out of bounds, index 0 included
C3_String ==
    query.op = "string" =>
        LET pool == constant_pool[1]
            index == query.index
        IN  IF index >= 1 /\ index <= Len(pool)
            THEN IF pool[index].tag = "Utf8"
                 THEN query.ans.st = "ok" /\ query.ans.val = <<pool[index].data>>
                 ELSE query.ans.st = "err" /\ query.ans.err = <<"InvalidConstantPoolType">>
            ELSE query.ans.st = "err" /\ query.ans.err = <<"InvalidConstantPoolIndex">>

\* C8: when the first four bytes are not 0xCAFEBABE, from_bytes has failed
\* with InvalidSignature of those four bytes, the cursor is at 4, and nothing
\* else of the buffer has had any effect
C8_InvalidSignature ==
    (MagicDone /\ Len(data) >= 4 /\ <<W16(0), W16(2)>> # <<51966, 47806>>) =>
        /\ result = "err"
        /\ err[1] = "InvalidSignature"
        /\ err[2] = <<W16(0), W16(2)>>
        /\ pos = 4
        /\ pc = "magic"
        /\ \A i \in 1..Len(parts) : parts[i] = <<>>

\* a wrong signature has been reported and the buffer goes on after it
C8_Witness ==
    /\ result = "err"
    /\ err[1] = "InvalidSignature"
    /\ Len(data) > 4

\* the positions of the decoded methods whose name is the one asked for
Named(name) == {i \in 1..Len(methods[1]) : methods[1][i].name = name}

\* C9: method(name) is the first decoded method of that name and none when
\* there is none; on the example of the specification method("main") has
\* descriptor "()V"
C9_FirstMethod ==
    query.op = "method" =>
        /\ IF Named(query.name) = {} THEN query.ans = <<>>
           ELSE /\ query.ans # <<>>
                /\ \E i \in Named(query.name) :
                      /\ \A j \in Named(query.name) : i <= j
                      /\ query.ans[1] = methods[1][i]
        /\ (data = ExampleFile /\ query.name = main) =>
              query.ans # <<>> /\ query.ans[1].descriptor = descV

\* method(name) has answered where two methods of that name differ
C9_Witness ==
    /\ query.op = "method"
    /\ Len(methods[1]) = 2
    /\ methods[1][1].name = query.name
    /\ methods[1][2].name = query.name
    /\ methods[1][1].descriptor # methods[1][2].descriptor
    /\ query.ans # <<>>

\* the pool is the last thing decoded
PoolJustRead == pc = "access_flags" /\ result = "running"

\* the decode of the pool has failed
PoolFailed == pc = "constant_pool" /\ result # "running"

\* C4: a decoded pool has count-1 entries, which are the constants of the
\* stream in their order, and the cursor stands right after them (after the
\* two count bytes when count is 1); a pool whose decode fails is not
\* returned, and the failure is that of the constant that could not be read
C4_PoolRead ==
    /\ constant_pool # <<>> =>
          LET pool == constant_pool[1]
              bytes == EncConstants(pool)
          IN  /\ W16(8) >= 1 => Len(pool) = W16(8) - 1
              /\ 10 + Len(bytes) <= Len(data)
              /\ bytes = SubSeq(data, 11, 10 + Len(bytes))
              /\ PoolJustRead => pos = 10 + Len(bytes)
    /\ PoolFailed =>
          /\ constant_pool = <<>>
          /\ result = "err" =>
                /\ err[1] \in {"Io", "InvalidConstantTag"}
                /\ err[1] = "InvalidConstantTag" =>
                      pos >= 11 /\ err[2] = data[pos] /\ err[2] \notin KnownTags

\* a pool of two constants has been decoded
C4_Witness == constant_pool # <<>> /\ Len(constant_pool[1]) = 2 /\ W16(8) = 3

\* the variant the table of the specification gives a tag
VariantOf(tag) ==
    CASE tag = 1 -> "Utf8" [] tag = 3 -> "Integer" [] tag = 4 -> "Float"
      [] tag = 5 -> "Long" [] tag = 6 -> "Double" [] tag = 7 -> "Class"
      [] tag = 8 -> "String" [] tag = 9 -> "FieldRef" [] tag = 10 -> "MethodRef"
      [] tag = 11 -> "InterfaceMethodRef" [] tag = 12 -> "NameAndType"
      [] tag = 15 -> "MethodHandle" [] tag = 16 -> "MethodType" [] tag = 17 -> "Dynamic"
      [] tag = 18 -> "InvokeDynamic" [] tag = 19 -> "Module" [] tag = 20 -> "Package"

\* the payload width the table gives the constant whose tag byte is at offset p
PayloadWidth(p, tag) ==
    CASE tag = 1 -> 2 + (IF p + 3 <= Len(data) THEN W16(p + 1) ELSE 0)
      [] tag \in {3, 4} -> 4
      [] tag \in {5, 6} -> 8
      [] tag \in {7, 8, 16, 19, 20} -> 2
      [] tag \in {9, 10, 11, 12, 15, 17, 18} -> 4

RECURSIVE TableHolds(_, _)
\* the decoded constants from the k-th on, the k-th starting at offset p, are
\* the variants of the table, each as wide as the table says
TableHolds(k, p) ==
    LET pool == constant_pool[1]
    IN  IF k > Len(pool) THEN PoolJustRead => pos = p
        ELSE /\ p < Len(data)
             /\ data[p + 1] \in KnownTags
             /\ pool[k].tag = VariantOf(data[p + 1])
             /\ p + 1 + PayloadWidth(p, data[p + 1]) <= Len(data)
             /\ EncConstant(pool[k]) = SubSeq(data, p + 1, p + 1 + PayloadWidth(p, data[p + 1]))
             /\ pool[k].tag = "MethodHandle" =>
                   pool[k].reference_index = W16(p + 1) /\ pool[k].reference_kind = W16(p + 3)
             /\ TableHolds(k + 1, p + 1 + PayloadWidth(p, data[p + 1]))

RECURSIVE FirstBadTag(_, _)
\* the offset of the first of the next n constants, starting at offset p, whose
\* tag is not in the table, all before it being whole; -1 when there is none
FirstBadTag(n, p) ==
    IF n = 0 \/ p >= Len(data) THEN -1
    ELSE IF data[p + 1] \notin KnownTags THEN p
    ELSE LET q == p + 1 + PayloadWidth(p, data[p + 1])
         IN  IF q > Len(data) THEN -1
             ELSE IF data[p + 1] = 1 /\ ~ValidUtf8(SubSeq(data, p + 4, q)) THEN -1
             ELSE FirstBadTag(n - 1, q)

\* C7: every decoded constant is the variant the table gives its tag and takes
\* the width the table gives it, MethodHandle with the index before the kind;
\* a tag outside the table fails with InvalidConstantTag(tag), only the tag
\* byte consumed
C7_TagDispatch ==
    /\ constant_pool # <<>> => TableHolds(1, 10)
    /\ (PoolFailed /\ result = "err" /\ err[1] = "InvalidConstantTag") =>
          pos >= 11 /\ err[2] = data[pos] /\ err[2] \notin KnownTags
    /\ ((PoolFailed \/ constant_pool # <<>>) /\ Len(data) >= 10 /\ W16(8) >= 1
            /\ FirstBadTag(W16(8) - 1, 10) >= 0) =>
          /\ PoolFailed
          /\ result = "err"
          /\ err = <<"InvalidConstantTag", data[FirstBadTag(W16(8) - 1, 10) + 1]>>
          /\ pos = FirstBadTag(W16(8) - 1, 10) + 1

\* a MethodHandle has been decoded whose index and kind differ
C7_Witness ==
    /\ constant_pool # <<>>
    /\ Len(constant_pool[1]) = 1
    /\ constant_pool[1][1].tag = "MethodHandle"
    /\ constant_pool[1][1].reference_index # constant_pool[1][1].reference_kind

\* the place of a statement of from_bytes in the order of the specification
Rank(s) ==
    CASE s = "magic" -> 0 [] s = "version" -> 1 [] s = "constant_pool" -> 2
      [] s = "access_flags" -> 3 [] s = "this_class" -> 4 [] s = "super_class" -> 5
      [] s = "interfaces" -> 6 [] s = "fields" -> 7 [] s = "methods" -> 8
      [] s = "attributes" -> 9 [] s = "return" -> 10 [] s = "done" -> 11

\* no bit outside the twelve flags of the vocabulary is set
InVocabulary(bits) == \A k \in {9, 13, 14, 15} : (bits \div (2 ^ k)) % 2 = 0

\* what looking index up in the decoded pool has to give
Lookup(index) ==
    IF index = 0 \/ index > Len(constant_pool[1]) THEN "InvalidConstantPoolIndex"
    ELSE IF constant_pool[1][index].tag # "Utf8" THEN "InvalidConstantPoolType"
    ELSE "ok"

\* the outcome a defect at index gives: that error, the cursor after the index
\* at q (index 0 may panic instead, which is C1's matter)
FailsAt(index, q) ==
    /\ pos' = q
    /\ IF index = 0 THEN result' \in {"err", "panic"} ELSE result' = "err"
    /\ result' = "err" => err' = <<Lookup(index)>>

\* the first field or method of a list that starts at the cursor: the first of
\* its defects, in the order flags, name, descriptor, decides the outcome
FirstMember ==
    (Len(data) >= pos + 4 /\ W16(pos) >= 1) =>
        IF ~InVocabulary(W16(pos + 2))
        THEN result' = "err" /\ err' = <<"InvalidAccessFlags", W16(pos + 2)>> /\ pos' = pos + 4
        ELSE Len(data) >= pos + 6 =>
            IF Lookup(W16(pos + 4)) # "ok" THEN FailsAt(W16(pos + 4), pos + 6)
            ELSE Len(data) >= pos + 8 =>
                IF Lookup(W16(pos + 6)) # "ok" THEN FailsAt(W16(pos + 6), pos + 8)
                ELSE pos' >= pos + 8

\* one step of from_bytes, in the order of the stream
InOrder ==
    /\ pos' >= pos
    /\ pos' <= Len(data)
    /\ Rank(pc') \in {Rank(pc), Rank(pc) + 1}
    /\ Rank(pc') = Rank(pc) => result' # "running"
    /\ \A i \in 1..Len(parts) : (parts'[i] # <<>>) <=> (Rank(pc') > i)
    /\ (pc = "magic" /\ result' = "err" /\ Len(data) >= 4) =>
          err'[1] = "InvalidSignature" /\ pos' = 4
    /\ (pc = "version" /\ result' = "err" /\ Len(data) >= 8) =>
          err' = <<"InvalidVersion", W16(6), W16(4)>> /\ pos' = 8
    /\ (pc = "access_flags" /\ result' = "err" /\ Len(data) >= pos + 2) =>
          err' = <<"InvalidAccessFlags", W16(pos)>> /\ pos' = pos + 2
    /\ (pc \in {"fields", "methods"} /\ result = "running") => FirstMember

\* C10: the statements of from_bytes run in the order of the stream, the cursor
\* never moves back, and the outcome is that of the first defect in that
\* order, the cursor right after the read that met it
C10_StreamOrder == [][InOrder]_vars

\* a field's name index is at the Integer and from_bytes has failed with
\* InvalidConstantPoolType, the descriptor index after it being out of range
C10_Witness ==
    /\ pc = "fields"
    /\ result = "err"
    /\ err = <<"InvalidConstantPoolType">>
    /\ Len(data) >= pos + 2
    /\ W16(pos) > Len(constant_pool[1])

\* the version step of from_bytes has run on a stream that holds a version
VersionDone == pc # "magic" /\ (pc # "version" \/ result # "running") /\ Len(data) >= 8

\* C2: a version is accepted exactly when major is at most 56 or minor is 0 or
\* 65535, and is then decoded as read; every other version fails with
\* InvalidVersion carrying major and minor
C2_VersionRule ==
    VersionDone =>
        IF W16(6) <= 56 \/ W16(4) \in {0, 65535}
        THEN version = <<[major |-> W16(6), minor |-> W16(4)]>>
        ELSE /\ version = <<>>
             /\ result = "err"
             /\ pc = "version"
             /\ err = <<"InvalidVersion", W16(6), W16(4)>>

\* an attribute main.rs decoded, as the record the format lays out
AsAttribute(a) ==
    [name_index |-> a.attribute_name_index,
     length |-> <<Len(a.info) \div 65536, Len(a.info) % 65536>>,
     payload |-> a.info]

AsAttributes(as) == [i \in 1..Len(as) |-> AsAttribute(as[i])]

AsMembers(ms) == [i \in 1..Len(ms) |-> [ms[i] EXCEPT !.attributes = AsAttributes(@)]]

\* the bytes the decoded class stands for
DecodedBytes ==
    EncHeader(Magic, version[1].minor, version[1].major)
        \o U16((Len(constant_pool[1]) + 1) % 65536)
        \o EncConstants(constant_pool[1])
        \o EncBody([access_flags |-> access_flags[1], this_class |-> this_class[1],
                    super_class |-> super_class[1], interfaces |-> interfaces[1],
                    fields |-> AsMembers(fields[1]), methods |-> AsMembers(methods[1]),
                    attributes |-> AsAttributes(attributes[1])])

\* C5: a decode that runs out of bytes fails, with the end-of-file error of
\* the reader; a class is returned only when every byte it stands for, each
\* attribute payload in full, was in the stream
C5_TruncatedInput ==
    /\ (result = "err" /\ err[1] = "Io") => err = UnexpectedEof
    /\ result = "ok" =>
          /\ Len(DecodedBytes) <= Len(data)
          /\ DecodedBytes = SubSeq(data, 1, Len(DecodedBytes))
          /\ pos = Len(DecodedBytes)

\* C6: flags at class, field and method level are accepted only when every
\* set bit is one of the twelve of the vocabulary; any other bit fails the
\* decode with InvalidAccessFlags carrying the value read
C6_AccessFlags ==
    /\ access_flags # <<>> => InVocabulary(access_flags[1])
    /\ fields # <<>> => \A i \in 1..Len(fields[1]) : InVocabulary(fields[1][i].access_flags)
    /\ methods # <<>> => \A i \in 1..Len(methods[1]) : InVocabulary(methods[1][i].access_flags)
    /\ (pc = "access_flags" /\ result = "err" /\ err[1] # "Io") =>
          err = <<"InvalidAccessFlags", W16(pos - 2)>> /\ ~InVocabulary(err[2])

\* the indices into the pool that a constant holds
IndexFields(c) ==
    CASE c.tag \in {"Class", "Module", "Package"} -> {c.name_index}
      [] c.tag = "String" -> {c.string_index}
      [] c.tag \in {"FieldRef", "MethodRef", "InterfaceMethodRef"} ->
            {c.class_index, c.name_and_type_index}
      [] c.tag = "NameAndType" -> {c.name_index, c.descriptor_index}
      [] c.tag = "MethodHandle" -> {c.reference_index}
      [] c.tag = "MethodType" -> {c.descriptor_index}
      [] c.tag \in {"Dynamic", "InvokeDynamic"} -> {c.name_and_type_index}
      [] OTHER -> {}

\* C11: in a decoded pool no constant holds its own position as an index, and
\* the decode of a pool never fails over where an index points
C11_NoSelfReference ==
    /\ constant_pool # <<>> =>
          \A i \in 1..Len(constant_pool[1]) : i \notin IndexFields(constant_pool[1][i])
    /\ (PoolFailed /\ result = "err") => err[1] \in {"Io", "InvalidConstantTag"}

====
